---- MODULE Spec2Model ----
(***************************************************************************)
(* cursor-hooks: the runtime guard isHookPayloadOf (src/src/types.ts) and  *)
(* the two hook scripts the package documents (src/README.md): the         *)
(* single-hook "Quick start" script and the "Combining handlers" dispatch  *)
(* script with the six handler templates.                                  *)
(*                                                                         *)
(* A JavaScript value is a record tagged by `kind`; a JavaScript string is *)
(* a TLA+ string.  A JSON document (stdin, a line of stdout) is held as    *)
(* the value it encodes.                                                   *)
(***************************************************************************)
EXTENDS Integers, Sequences, FiniteSets, TLC

VARIABLES
    script,     \* which documented script this process runs
    handlers,   \* the keys of the `handlers` table (README "Combining handlers")
    stdin,      \* the text on standard input: malformed, or the JSON of a value
    pc,         \* position of the script
    payload,    \* `payload` / `rawInput`: the decoded value
    handler,    \* `handler`: what handlers[payload.hook_event_name] evaluated to
    pending,    \* completion of the invoked handler, awaited by the script
    response,   \* `response`
    calls,      \* every function invoked as a handler, with its argument
    stdout,     \* JSON response channel: documents written by console.log
    stderr,     \* error channel: console.error lines and the uncaught-error report
    exitCode,   \* process exit status, -1 while running
    log,        \* the steps taken so far, in order
    gValue,     \* guard harness: the value passed to isHookPayloadOf
    gEvent,     \* guard harness: the event passed to isHookPayloadOf
    gResult,    \* guard harness: completion of the last call
    gCalls,     \* guard harness: number of calls made
    cfgFile,    \* configuration check: the decoded hooks.json
    cfgVerdict, \* configuration check: "none", then "accepted" or "rejected"
    rValue,     \* response codec: the response a hook constructed
    rText,      \* response codec: its JSON text, as a sequence of tokens
    rDecoded    \* response codec: the value the host decodes from the text

runVars == <<script, handlers, stdin, pc, payload, handler, pending, response,
             calls, stdout, stderr, exitCode, log>>
guardVars == <<gValue, gEvent, gResult, gCalls>>
configVars == <<cfgFile, cfgVerdict>>
codecVars == <<rValue, rText, rDecoded>>
vars == <<script, handlers, stdin, pc, payload, handler, pending, response,
          calls, stdout, stderr, exitCode, log, gValue, gEvent, gResult, gCalls,
          cfgFile, cfgVerdict, rValue, rText, rDecoded>>

(***************************************************************************)
(* Bounds of the model.                                                    *)
(***************************************************************************)
MaxArrayLen == 1      \* longest array used as a hook_event_name value
MaxExtraFields == 1   \* most fields an object carries besides hook_event_name
MaxCalls == 2         \* most calls of the guard harness

(***************************************************************************)
(* JavaScript values.                                                      *)
(***************************************************************************)
Undefined == [kind |-> "undefined"]
Null == [kind |-> "null"]
Bool(b) == [kind |-> "boolean", b |-> b]
Num(n) == [kind |-> "number", n |-> n]
Str(s) == [kind |-> "string", s |-> s]
Arr(items) == [kind |-> "array", items |-> items]
Obj(fields) == [kind |-> "object", fields |-> fields]
NoFields == [k \in {} |-> Undefined]
Field(k, v) == [x \in {k} |-> v]

\* Completion of an evaluation: a returned value or a thrown error.
Ret(v) == [threw |-> FALSE, value |-> v, error |-> ""]
Throw(e) == [threw |-> TRUE, value |-> Undefined, error |-> e]

HookEventName ==
    {"beforeShellExecution", "beforeMCPExecution", "afterFileEdit",
     "beforeReadFile", "beforeSubmitPrompt", "stop"}

\* Members every object literal inherits from Object.prototype (a sample), and
\* the members arrays inherit besides.
ObjectPrototypeKeys == {"constructor", "toString", "valueOf", "__proto__"}
ArrayPrototypeKeys == {"length", "includes", "join"}

\* typeof
Typeof(v) ==
    CASE v.kind = "undefined" -> "undefined"
      [] v.kind = "null" -> "object"
      [] v.kind = "boolean" -> "boolean"
      [] v.kind = "number" -> "number"
      [] v.kind = "string" -> "string"
      [] v.kind = "array" -> "object"
      [] v.kind = "object" -> "object"

\* Decimal text of the small naturals the model uses as array indices.
IndexKey(i) == CASE i = 0 -> "0" [] i = 1 -> "1" [] i = 2 -> "2" [] OTHER -> "3"

\* key in v, for v an Object: own properties, then the prototype chain.
HasProperty(v, key) ==
    CASE v.kind = "object" ->
            key \in DOMAIN v.fields \/ key \in ObjectPrototypeKeys
      [] v.kind = "array" ->
            \/ key \in {IndexKey(i - 1) : i \in 1..Len(v.items)}
            \/ key \in ArrayPrototypeKeys
            \/ key \in ObjectPrototypeKeys
      [] OTHER -> FALSE

\* The `in` operator: a TypeError unless the right operand is an Object.
InOperator(key, v) ==
    IF v.kind \in {"object", "array"}
    THEN Ret(Bool(HasProperty(v, key)))
    ELSE Throw("TypeError")

\* v.key for a data property the model's values can own. Reading a property of
\* null or undefined is a TypeError; a primitive has no such property.
GetProp(v, key) ==
    CASE v.kind \in {"null", "undefined"} -> Throw("TypeError")
      [] v.kind = "object" /\ key \in DOMAIN v.fields -> Ret(v.fields[key])
      [] OTHER -> Ret(Undefined)

\* a === s for a string s
StrictEqualsString(a, s) == a.kind = "string" /\ a.s = s

(***************************************************************************)
(* Faulty variants of isHookPayloadOf, used to show that the properties    *)
(* below depend on each conjunct of the guard.                             *)
(***************************************************************************)
\* forgets to compare the discriminant with the event
isHookPayloadOf_NoCompare(p, event) ==
    IF Typeof(p) # "object" THEN Ret(Bool(FALSE))
    ELSE IF p = Null THEN Ret(Bool(FALSE))
    ELSE IF InOperator("hook_event_name", p).threw THEN Throw("TypeError")
    ELSE Ret(Bool(InOperator("hook_event_name", p).value.b))

\* forgets that typeof null is "object"
isHookPayloadOf_NoNullCheck(p, event) ==
    IF Typeof(p) # "object" THEN Ret(Bool(FALSE))
    ELSE IF InOperator("hook_event_name", p).threw THEN Throw("TypeError")
    ELSE IF ~InOperator("hook_event_name", p).value.b THEN Ret(Bool(FALSE))
    ELSE Ret(Bool(StrictEqualsString(GetProp(p, "hook_event_name").value, event)))

\* also demands a base field of the payload
isHookPayloadOf_Strict(p, event) ==
    IF Typeof(p) # "object" THEN Ret(Bool(FALSE))
    ELSE IF p = Null THEN Ret(Bool(FALSE))
    ELSE IF InOperator("hook_event_name", p).threw THEN Throw("TypeError")
    ELSE IF ~InOperator("hook_event_name", p).value.b THEN Ret(Bool(FALSE))
    ELSE IF ~InOperator("conversation_id", p).value.b THEN Ret(Bool(FALSE))
    ELSE Ret(Bool(StrictEqualsString(GetProp(p, "hook_event_name").value, event)))

(***************************************************************************)
(* isHookPayloadOf (src/src/types.ts:184-194).  The conjuncts are          *)
(* evaluated left to right and stop at the first false one.                *)
(***************************************************************************)
isHookPayloadOf(p, event) ==
    IF Typeof(p) # "object" THEN Ret(Bool(FALSE))
    ELSE IF p = Null THEN Ret(Bool(FALSE))
    ELSE IF InOperator("hook_event_name", p).threw THEN Throw("TypeError")
    ELSE IF ~InOperator("hook_event_name", p).value.b THEN Ret(Bool(FALSE))
    ELSE IF GetProp(p, "hook_event_name").threw THEN Throw("TypeError")
    ELSE Ret(Bool(StrictEqualsString(GetProp(p, "hook_event_name").value, event)))

\* The guard as a condition: it returned true.
Narrows(p, event) ==
    LET r == isHookPayloadOf(p, event) IN ~r.threw /\ r.value = Bool(TRUE)

(***************************************************************************)
(* Decoded JSON values the scripts are run on.                             *)
(***************************************************************************)
RECURSIVE SeqsUpTo(_, _)
SeqsUpTo(S, n) ==
    IF n = 0 THEN {<<>>}
    ELSE LET shorter == SeqsUpTo(S, n - 1)
         IN shorter \cup {Append(q, x) : q \in {r \in shorter : Len(r) = n - 1}, x \in S}

Double(s) == s \o s
\* A prompt longer than the 2000 characters handleBeforeSubmitPrompt allows.
LongPrompt ==
    Double(Double(Double(Double(Double(Double(Double(Double(Double(Double(Double("x")))))))))))

SampleEdit == Obj([k \in {"old_string", "new_string"} |-> Str(k)])

DiscriminantArrays ==
    {Arr(q) : q \in SeqsUpTo({Str("stop"), Str("beforeReadFile")}, MaxArrayLen)}

\* Values given to the hook_event_name field.
DiscriminantValues ==
    {Str(e) : e \in HookEventName}
    \cup {Str("notAnEvent"), Str("")}
    \cup {Str(k) : k \in ObjectPrototypeKeys}
    \cup {Num(1), Null, Bool(TRUE), Obj(NoFields)}
    \cup DiscriminantArrays

ExtraKeys ==
    {"command", "tool_name", "edits", "content", "prompt", "status", "conversation_id"}

\* Values given to the other fields: well typed ones and wrongly typed ones.
ValuesFor(k) ==
    CASE k = "command" -> {Str("rm -rf /"), Str("sudo rm -rf x"), Str("ls"), Num(7)}
      [] k = "tool_name" -> {Str("dangerousTool"), Str("safeTool")}
      [] k = "edits" -> {Arr(<<>>), Arr(<<SampleEdit>>), Num(7)}
      [] k = "content" -> {Str("API_KEY=1"), Str("hello")}
      [] k = "prompt" -> {Str("hi"), Str(LongPrompt)}
      [] k = "status" -> {Str("completed")}
      [] k = "conversation_id" -> {Str("c1")}

RECURSIVE FieldMaps(_)
\* Every assignment of values to the keys of K.
FieldMaps(K) ==
    IF K = {} THEN {NoFields}
    ELSE LET k == CHOOSE x \in K : TRUE
         IN {Field(k, v) @@ m : v \in ValuesFor(k), m \in FieldMaps(K \ {k})}

ExtraParts ==
    UNION {FieldMaps(K) : K \in {X \in SUBSET ExtraKeys : Cardinality(X) <= MaxExtraFields}}

DiscriminantParts ==
    {NoFields} \cup {Field("hook_event_name", v) : v \in DiscriminantValues}

JsonObjects == {Obj(d @@ e) : d \in DiscriminantParts, e \in ExtraParts}

JsonNonObjects ==
    {Null, Bool(TRUE), Bool(FALSE), Num(0), Str("stop"), Str("hook_event_name")}
    \cup {Arr(<<>>), Arr(<<Str("stop")>>), Arr(<<Str("hook_event_name"), Str("stop")>>)}

JsonValues == JsonObjects \cup JsonNonObjects

(***************************************************************************)
(* Guard harness: isHookPayloadOf applied to a value and an event.         *)
(***************************************************************************)
NotCalled == [threw |-> FALSE, value |-> Undefined, error |-> "not called"]

\* No configuration file is being checked.
ConfigIdle ==
    /\ cfgFile = Undefined
    /\ cfgVerdict = "none"

\* No response is being encoded.
CodecIdle ==
    /\ rValue = Undefined
    /\ rText = <<>>
    /\ rDecoded = Undefined

RunIdle ==
    /\ script = "none"
    /\ handlers = {}
    /\ stdin = [malformed |-> TRUE, value |-> Undefined]
    /\ pc = "idle"
    /\ payload = Undefined
    /\ handler = Undefined
    /\ pending = NotCalled
    /\ response = Undefined
    /\ calls = <<>>
    /\ stdout = <<>>
    /\ stderr = <<>>
    /\ exitCode = -1
    /\ log = <<>>

GuardInit ==
    /\ gValue \in JsonValues
    /\ gEvent \in HookEventName
    /\ gResult = NotCalled
    /\ gCalls = 0
    /\ RunIdle
    /\ ConfigIdle
    /\ CodecIdle

CallGuard ==
    /\ gCalls < MaxCalls
    /\ gResult' = isHookPayloadOf(gValue, gEvent)
    /\ gCalls' = gCalls + 1
    /\ UNCHANGED <<gValue, gEvent>>
    /\ UNCHANGED <<runVars, configVars, codecVars>>

GuardNext == CallGuard

GuardSpec == GuardInit /\ [][GuardNext]_vars

(***************************************************************************)
(* JavaScript operations the scripts and the handler templates use.        *)
(***************************************************************************)
NumText(n) == CASE n = 0 -> "0" [] n = 1 -> "1" [] n = 7 -> "7" [] OTHER -> "NaN"

RECURSIVE ToStringJS(_)
RECURSIVE Join(_)
\* Array.prototype.join(","): null and undefined elements give the empty string.
Join(items) ==
    IF Len(items) = 0 THEN ""
    ELSE LET head == IF items[1].kind \in {"null", "undefined"}
                     THEN "" ELSE ToStringJS(items[1])
         IN IF Len(items) = 1 THEN head ELSE head \o "," \o Join(Tail(items))

\* ToString, as a property key lookup and a template literal apply it.
ToStringJS(v) ==
    CASE v.kind = "undefined" -> "undefined"
      [] v.kind = "null" -> "null"
      [] v.kind = "boolean" -> IF v.b THEN "true" ELSE "false"
      [] v.kind = "number" -> NumText(v.n)
      [] v.kind = "string" -> v.s
      [] v.kind = "array" -> Join(v.items)
      [] v.kind = "object" -> "[object Object]"

\* s.includes(needle) for strings.
StringIncludes(s, needle) ==
    \E i \in 1..(Len(s) - Len(needle) + 1) : SubSeq(s, i, i + Len(needle) - 1) = needle

\* v.includes(needle): String.prototype.includes, Array.prototype.includes, and a
\* TypeError for a value that has no such method.
MethodIncludes(v, needle) ==
    CASE v.kind = "string" -> Ret(Bool(StringIncludes(v.s, needle)))
      [] v.kind = "array" ->
            Ret(Bool(\E i \in 1..Len(v.items) : StrictEqualsString(v.items[i], needle)))
      [] OTHER -> Throw("TypeError")

\* v.length
LengthOf(v) ==
    CASE v.kind \in {"null", "undefined"} -> Throw("TypeError")
      [] v.kind = "string" -> Ret(Num(Len(v.s)))
      [] v.kind = "array" -> Ret(Num(Len(v.items)))
      [] OTHER -> Ret(Undefined)

\* The number of iterations of `for (const x of v)`, or a TypeError.
IterationsOf(v) ==
    CASE v.kind = "string" -> Ret(Num(Len(v.s)))
      [] v.kind = "array" -> Ret(Num(Len(v.items)))
      [] OTHER -> Throw("TypeError")

\* Faulty variant: properties with a falsy value (false, "", 0, null) are left
\* out, like undefined ones.
JSONstringify_DropsFalsy(v) ==
    CASE v.kind = "object" ->
            Obj([k \in {x \in DOMAIN v.fields :
                            v.fields[x] \notin {Undefined, Null, Bool(FALSE), Str(""), Num(0)}}
                    |-> v.fields[k]])
      [] OTHER -> v

RECURSIVE JSONstringify(_)
\* JSON.stringify, held as the value its text encodes: undefined gives no text,
\* a property whose value is undefined is left out, an undefined array element
\* becomes null.
JSONstringify(v) ==
    CASE v.kind = "object" ->
            Obj([k \in {x \in DOMAIN v.fields : v.fields[x].kind # "undefined"} |->
                    JSONstringify(v.fields[k])])
      [] v.kind = "array" ->
            Arr([i \in 1..Len(v.items) |->
                    IF v.items[i].kind = "undefined" THEN Null
                    ELSE JSONstringify(v.items[i])])
      [] OTHER -> v

Repeat(line, n) == [i \in 1..n |-> line]

(***************************************************************************)
(* The handler templates (src/README.md:102-242).  A handler's run is its  *)
(* completion and the lines it wrote with console.error.                   *)
(***************************************************************************)
MaxPromptLength == 2000

Ran(completion, errs) == [completion |-> completion, errs |-> errs]

\* Faulty variant: the command is tested for the prefix "rm -rf" only.
handleBeforeShellExecution_Prefix(p) ==
    LET g == isHookPayloadOf(p, "beforeShellExecution")
        c == GetProp(p, "command").value
    IN IF g.threw THEN Ran(g, <<>>)
       ELSE IF ~g.value.b THEN Ran(Throw("Error: Invalid beforeShellExecution payload"), <<>>)
       ELSE IF c.kind # "string" THEN Ran(Throw("TypeError"), <<>>)
       ELSE IF Len(c.s) >= 6 /\ SubSeq(c.s, 1, 6) = "rm -rf"
       THEN Ran(Ret(Obj([k \in {"permission", "userMessage", "agentMessage"} |->
                    CASE k = "permission" -> Str("deny")
                      [] k = "userMessage" -> Str("Dangerous command blocked.")
                      [] k = "agentMessage" -> Str("Rejected destructive command.")])), <<>>)
       ELSE Ran(Ret(Obj(Field("permission", Str("allow")))), <<>>)

handleBeforeShellExecution(p) ==
    LET g == isHookPayloadOf(p, "beforeShellExecution")
        inc == MethodIncludes(GetProp(p, "command").value, "rm -rf")
    IN IF g.threw THEN Ran(g, <<>>)
       ELSE IF ~g.value.b THEN Ran(Throw("Error: Invalid beforeShellExecution payload"), <<>>)
       ELSE IF inc.threw THEN Ran(inc, <<>>)
       ELSE IF inc.value.b
       THEN Ran(Ret(Obj([k \in {"permission", "userMessage", "agentMessage"} |->
                    CASE k = "permission" -> Str("deny")
                      [] k = "userMessage" -> Str("Dangerous command blocked.")
                      [] k = "agentMessage" -> Str("Rejected destructive command.")])), <<>>)
       ELSE Ran(Ret(Obj(Field("permission", Str("allow")))), <<>>)

handleBeforeMCPExecution(p) ==
    LET g == isHookPayloadOf(p, "beforeMCPExecution")
    IN IF g.threw THEN Ran(g, <<>>)
       ELSE IF ~g.value.b THEN Ran(Throw("Error: Invalid beforeMCPExecution payload"), <<>>)
       ELSE IF StrictEqualsString(GetProp(p, "tool_name").value, "dangerousTool")
       THEN Ran(Ret(Obj([k \in {"permission", "userMessage", "agentMessage"} |->
                    CASE k = "permission" -> Str("ask")
                      [] k = "userMessage" -> Str("Tool requires confirmation.")
                      [] k = "agentMessage" -> Str("Waiting for user approval.")])), <<>>)
       ELSE Ran(Ret(Obj(Field("permission", Str("allow")))), <<>>)

handleAfterFileEdit(p) ==
    LET g == isHookPayloadOf(p, "afterFileEdit")
        n == IterationsOf(GetProp(p, "edits").value)
    IN IF g.threw THEN Ran(g, <<>>)
       ELSE IF ~g.value.b THEN Ran(Throw("Error: Invalid afterFileEdit payload"), <<>>)
       ELSE IF n.threw THEN Ran(n, <<>>)
       ELSE Ran(Ret(Undefined), Repeat("Edited", n.value.n))

\* Faulty variant: a file with a secret is answered "ask", as the MCP template does.
handleBeforeReadFile_Ask(p) ==
    LET g == isHookPayloadOf(p, "beforeReadFile")
        containsSecret == MethodIncludes(GetProp(p, "content").value, "API_KEY")
    IN IF g.threw THEN Ran(g, <<>>)
       ELSE IF ~g.value.b THEN Ran(Throw("Error: Invalid beforeReadFile payload"), <<>>)
       ELSE IF containsSecret.threw THEN Ran(containsSecret, <<>>)
       ELSE IF containsSecret.value.b
       THEN Ran(Ret(Obj(Field("permission", Str("ask")))), <<>>)
       ELSE Ran(Ret(Obj(Field("permission", Str("allow")))), <<>>)

handleBeforeReadFile(p) ==
    LET g == isHookPayloadOf(p, "beforeReadFile")
        containsSecret == MethodIncludes(GetProp(p, "content").value, "API_KEY")
    IN IF g.threw THEN Ran(g, <<>>)
       ELSE IF ~g.value.b THEN Ran(Throw("Error: Invalid beforeReadFile payload"), <<>>)
       ELSE IF containsSecret.threw THEN Ran(containsSecret, <<>>)
       ELSE IF containsSecret.value.b
       THEN Ran(Ret(Obj(Field("permission", Str("deny")))), <<>>)
       ELSE Ran(Ret(Obj(Field("permission", Str("allow")))), <<>>)

handleBeforeSubmitPrompt(p) ==
    LET g == isHookPayloadOf(p, "beforeSubmitPrompt")
        len == LengthOf(GetProp(p, "prompt").value)
    IN IF g.threw THEN Ran(g, <<>>)
       ELSE IF ~g.value.b THEN Ran(Throw("Error: Invalid beforeSubmitPrompt payload"), <<>>)
       ELSE IF len.threw THEN Ran(len, <<>>)
       ELSE IF len.value.kind = "number" /\ len.value.n > MaxPromptLength
       THEN Ran(Ret(Obj(Field("continue", Bool(FALSE)))), <<>>)
       ELSE Ran(Ret(Obj(Field("continue", Bool(TRUE)))), <<>>)

\* The template of the earlier edition of the README (src/unnamed/part_001:190-207):
\* the refusal carries a userMessage as well.
handleBeforeSubmitPromptEarlier(p) ==
    LET g == isHookPayloadOf(p, "beforeSubmitPrompt")
        len == LengthOf(GetProp(p, "prompt").value)
    IN IF g.threw THEN Ran(g, <<>>)
       ELSE IF ~g.value.b THEN Ran(Throw("Error: Invalid beforeSubmitPrompt payload"), <<>>)
       ELSE IF len.threw THEN Ran(len, <<>>)
       ELSE IF len.value.kind = "number" /\ len.value.n > MaxPromptLength
       THEN Ran(Ret(Obj([k \in {"continue", "userMessage"} |->
                    IF k = "continue" THEN Bool(FALSE)
                    ELSE Str("Prompt too long. Trim it before sending.")])), <<>>)
       ELSE Ran(Ret(Obj(Field("continue", Bool(TRUE)))), <<>>)

handleStop(p) ==
    LET g == isHookPayloadOf(p, "stop")
    IN IF g.threw THEN Ran(g, <<>>)
       ELSE IF ~g.value.b THEN Ran(Throw("Error: Invalid stop payload"), <<>>)
       ELSE Ran(Ret(Undefined),
                <<"Agent finished with status: " \o ToStringJS(GetProp(p, "status").value)>>)

\* The templates declared `async`: their failure is a rejected promise.
AsyncHandlers == {"beforeShellExecution", "afterFileEdit"}

(***************************************************************************)
(* The handlers table and the call `handler(payload as never)`             *)
(* (src/README.md:264-277).                                                *)
(***************************************************************************)
\* handlers[key]: an own entry of the object literal, else a member inherited
\* from Object.prototype, else undefined.
TableGet(table, key) ==
    IF key \in table THEN [kind |-> "handler", name |-> key]
    ELSE IF key = "__proto__" THEN [kind |-> "prototype", name |-> key]
    ELSE IF key \in ObjectPrototypeKeys THEN [kind |-> "builtin", name |-> key]
    ELSE Undefined

\* if (handler): undefined is falsy, a function or an object is truthy.
Truthy(h) == h.kind # "undefined"

Callable(h) == h.kind \in {"handler", "builtin"}

\* The dispatch script of the README and the one of its earlier edition
\* (src/unnamed/part_001:247-267), which differ in handleBeforeSubmitPrompt only.
DispatchScripts == {"combined", "combined_earlier"}

\* The run of handler(payload): `this` is undefined in the call.
CallFunction(h, p) ==
    CASE h.kind = "handler" /\ h.name = "beforeShellExecution" -> handleBeforeShellExecution(p)
      [] h.kind = "handler" /\ h.name = "beforeMCPExecution" -> handleBeforeMCPExecution(p)
      [] h.kind = "handler" /\ h.name = "afterFileEdit" -> handleAfterFileEdit(p)
      [] h.kind = "handler" /\ h.name = "beforeReadFile" -> handleBeforeReadFile(p)
      [] h.kind = "handler" /\ h.name = "beforeSubmitPrompt" ->
            IF script = "combined_earlier" THEN handleBeforeSubmitPromptEarlier(p)
            ELSE handleBeforeSubmitPrompt(p)
      [] h.kind = "handler" /\ h.name = "stop" -> handleStop(p)
      [] h.kind = "builtin" /\ h.name = "constructor" -> Ran(Ret(p), <<>>)
      [] h.kind = "builtin" /\ h.name = "toString" -> Ran(Ret(Str("[object Undefined]")), <<>>)
      [] OTHER -> Ran(Throw("TypeError"), <<>>)

\* A handler that fails before its first await point fails the caller's
\* expression at once unless it is an async function.
ThrowsSynchronously(h, run) ==
    run.completion.threw /\ ~(h.kind = "handler" /\ h.name \in AsyncHandlers)

(***************************************************************************)
(* One run of a hook script.                                               *)
(***************************************************************************)
Scripts == {"single"} \cup DispatchScripts

StdinTexts ==
    {[malformed |-> TRUE, value |-> Undefined]}
    \cup {[malformed |-> FALSE, value |-> v] : v \in JsonValues}

GuardIdle ==
    /\ gValue = Undefined
    /\ gEvent = "stop"
    /\ gResult = NotCalled
    /\ gCalls = 0

Init ==
    /\ script \in Scripts
    /\ handlers \in IF script \in DispatchScripts THEN SUBSET HookEventName ELSE {{}}
    /\ stdin \in StdinTexts
    /\ pc = "start"
    /\ payload = Undefined
    /\ handler = Undefined
    /\ pending = NotCalled
    /\ response = Undefined
    /\ calls = <<>>
    /\ stdout = <<>>
    /\ stderr = <<>>
    /\ exitCode = -1
    /\ log = <<>>
    /\ GuardIdle
    /\ ConfigIdle
    /\ CodecIdle

\* An error nothing catches: the runtime reports it on the error channel and
\* the process ends with status 1.
Crash(e) ==
    /\ stderr' = Append(stderr, "Uncaught " \o e)
    /\ exitCode' = 1
    /\ pc' = "done"

\* README.md:22 and :273: JSON.parse(await Bun.stdin.text())
Decode ==
    /\ pc = "start"
    /\ log' = Append(log, "decode")
    /\ IF stdin.malformed
       THEN Crash("SyntaxError") /\ UNCHANGED payload
       ELSE /\ payload' = stdin.value
            /\ pc' = "decoded"
            /\ UNCHANGED <<stderr, exitCode>>
    /\ UNCHANGED <<script, handlers, stdin, handler, pending, response, calls, stdout>>
    /\ UNCHANGED <<guardVars, configVars, codecVars>>

\* README.md:274: const handler = handlers[payload.hook_event_name]
Lookup ==
    /\ pc = "decoded"
    /\ script \in DispatchScripts
    /\ LET name == GetProp(payload, "hook_event_name")
       IN IF name.threw
          THEN Crash(name.error) /\ UNCHANGED handler
          ELSE /\ handler' = TableGet(handlers, ToStringJS(name.value))
               /\ pc' = "looked"
               /\ UNCHANGED <<stderr, exitCode>>
    /\ UNCHANGED <<script, handlers, stdin, payload, pending, response, calls, stdout, log>>
    /\ UNCHANGED <<guardVars, configVars, codecVars>>

\* Faulty variant: the call is not awaited, so `response` is the promise the
\* handler returned (JSON.stringify of a promise is {}), whatever it settles to.
InvokeHandler_NoAwait ==
    /\ pc = "looked"
    /\ Truthy(handler)
    /\ IF ~Callable(handler)
       THEN Crash("TypeError") /\ UNCHANGED <<pending, response, calls, log>>
       ELSE LET run == CallFunction(handler, payload)
            IN /\ calls' = Append(calls, [fn |-> handler, arg |-> payload])
               /\ log' = Append(log, "invoke")
               /\ IF ThrowsSynchronously(handler, run)
                  THEN /\ stderr' = Append(stderr \o run.errs, "Uncaught " \o run.completion.error)
                       /\ exitCode' = 1
                       /\ pc' = "done"
                       /\ UNCHANGED <<pending, response>>
                  ELSE /\ stderr' = stderr \o run.errs
                       /\ pending' = run.completion
                       /\ response' = IF handler.kind = "handler" /\ handler.name \in AsyncHandlers
                                      THEN Obj(NoFields) ELSE run.completion.value
                       /\ pc' = "settled"
                       /\ UNCHANGED exitCode
    /\ UNCHANGED <<script, handlers, stdin, payload, handler, stdout>>
    /\ UNCHANGED <<guardVars, configVars, codecVars>>

\* README.md:276-277: if (handler) { ... handler(payload as never)
InvokeHandler ==
    /\ pc = "looked"
    /\ Truthy(handler)
    /\ IF ~Callable(handler)
       THEN Crash("TypeError") /\ UNCHANGED <<pending, calls, log>>
       ELSE LET run == CallFunction(handler, payload)
            IN /\ calls' = Append(calls, [fn |-> handler, arg |-> payload])
               /\ log' = Append(log, "invoke")
               /\ IF ThrowsSynchronously(handler, run)
                  THEN /\ stderr' = Append(stderr \o run.errs, "Uncaught " \o run.completion.error)
                       /\ exitCode' = 1
                       /\ pc' = "done"
                       /\ UNCHANGED pending
                  ELSE /\ stderr' = stderr \o run.errs
                       /\ pending' = run.completion
                       /\ pc' = "awaiting"
                       /\ UNCHANGED exitCode
    /\ UNCHANGED <<script, handlers, stdin, payload, handler, response, stdout>>
    /\ UNCHANGED <<guardVars, configVars, codecVars>>

\* Faulty variant: a rejected handler is caught and treated as "no response".
Settle_Swallow ==
    /\ pc = "awaiting"
    /\ response' = pending.value
    /\ pc' = "settled"
    /\ UNCHANGED <<script, handlers, stdin, payload, handler, pending, calls, stdout,
                   stderr, exitCode, log>>
    /\ UNCHANGED <<guardVars, configVars, codecVars>>

\* README.md:277: const response = await ...
Settle ==
    /\ pc = "awaiting"
    /\ IF pending.threw
       THEN Crash(pending.error) /\ UNCHANGED response
       ELSE /\ response' = pending.value
            /\ pc' = "settled"
            /\ UNCHANGED <<stderr, exitCode>>
    /\ UNCHANGED <<script, handlers, stdin, payload, handler, pending, calls, stdout, log>>
    /\ UNCHANGED <<guardVars, configVars, codecVars>>

\* Faulty variant: the response is written without the undefined test.
Respond_Always ==
    /\ pc = "settled"
    /\ stdout' = Append(stdout, JSONstringify(response))
    /\ log' = Append(log, "write")
    /\ pc' = "end"
    /\ UNCHANGED <<script, handlers, stdin, payload, handler, pending, response, calls,
                   stderr, exitCode>>
    /\ UNCHANGED <<guardVars, configVars, codecVars>>

\* Faulty variant: the payload is written in place of the response.
Respond_Payload ==
    /\ pc = "settled"
    /\ IF response # Undefined
       THEN /\ stdout' = Append(stdout, JSONstringify(payload))
            /\ log' = Append(log, "write")
       ELSE UNCHANGED <<stdout, log>>
    /\ pc' = "end"
    /\ UNCHANGED <<script, handlers, stdin, payload, handler, pending, response, calls,
                   stderr, exitCode>>
    /\ UNCHANGED <<guardVars, configVars, codecVars>>

\* Faulty variant: the script does not move on after writing, and writes again.
Respond_Again ==
    /\ pc = "settled"
    /\ Len(stdout) < 2
    /\ IF response # Undefined
       THEN /\ stdout' = Append(stdout, JSONstringify(response))
            /\ log' = Append(log, "write")
            /\ pc' = IF Len(stdout) = 0 THEN "settled" ELSE "end"
       ELSE UNCHANGED <<stdout, log>> /\ pc' = "end"
    /\ UNCHANGED <<script, handlers, stdin, payload, handler, pending, response, calls,
                   stderr, exitCode>>
    /\ UNCHANGED <<guardVars, configVars, codecVars>>

\* README.md:278-280: if (response !== undefined) console.log(JSON.stringify(response))
Respond ==
    /\ pc = "settled"
    /\ IF response # Undefined
       THEN /\ stdout' = Append(stdout, JSONstringify(response))
            /\ log' = Append(log, "write")
       ELSE UNCHANGED <<stdout, log>>
    /\ pc' = "end"
    /\ UNCHANGED <<script, handlers, stdin, payload, handler, pending, response, calls,
                   stderr, exitCode>>
    /\ UNCHANGED <<guardVars, configVars, codecVars>>

\* Faulty variant: a missing handler is a silent no-op.
NoHandler_Silent ==
    /\ pc = "looked"
    /\ ~Truthy(handler)
    /\ pc' = "end"
    /\ UNCHANGED <<script, handlers, stdin, payload, handler, pending, response, calls,
                   stdout, stderr, exitCode, log>>
    /\ UNCHANGED <<guardVars, configVars, codecVars>>

\* README.md:281-284: console.error(`No handler for ...`); process.exit(1)
NoHandler ==
    /\ pc = "looked"
    /\ ~Truthy(handler)
    /\ stderr' = Append(stderr,
            "No handler for " \o ToStringJS(GetProp(payload, "hook_event_name").value))
    /\ exitCode' = 1
    /\ pc' = "done"
    /\ UNCHANGED <<script, handlers, stdin, payload, handler, pending, response, calls,
                   stdout, log>>
    /\ UNCHANGED <<guardVars, configVars, codecVars>>

\* README.md:24-27: the guard of the single-hook script
GuardCheck ==
    /\ pc = "decoded"
    /\ script = "single"
    /\ log' = Append(log, "guard")
    /\ LET g == isHookPayloadOf(payload, "beforeShellExecution")
       IN IF g.threw THEN Crash(g.error)
          ELSE IF ~g.value.b
          THEN /\ stderr' = Append(stderr, "Unexpected hook payload")
               /\ exitCode' = 1
               /\ pc' = "done"
          ELSE /\ pc' = "narrowed"
               /\ UNCHANGED <<stderr, exitCode>>
    /\ UNCHANGED <<script, handlers, stdin, payload, handler, pending, response, calls, stdout>>
    /\ UNCHANGED <<guardVars, configVars, codecVars>>

\* README.md:29-34: const response = { permission: ..., userMessage: ... }
BuildResponse ==
    /\ pc = "narrowed"
    /\ LET inc == MethodIncludes(GetProp(payload, "command").value, "rm -rf")
       IN IF inc.threw
          THEN Crash(inc.error) /\ UNCHANGED response
          ELSE /\ response' = Obj([k \in {"permission", "userMessage"} |->
                        IF k = "permission"
                        THEN (IF inc.value.b THEN Str("deny") ELSE Str("allow"))
                        ELSE Str("Command reviewed.")])
               /\ pc' = "built"
               /\ UNCHANGED <<stderr, exitCode>>
    /\ UNCHANGED <<script, handlers, stdin, payload, handler, pending, calls, stdout, log>>
    /\ UNCHANGED <<guardVars, configVars, codecVars>>

\* README.md:36: console.log(JSON.stringify(response))
WriteResponse ==
    /\ pc = "built"
    /\ stdout' = Append(stdout, JSONstringify(response))
    /\ log' = Append(log, "write")
    /\ pc' = "end"
    /\ UNCHANGED <<script, handlers, stdin, payload, handler, pending, response, calls,
                   stderr, exitCode>>
    /\ UNCHANGED <<guardVars, configVars, codecVars>>

\* The script ran to its end: the process exits with status 0.
Exit ==
    /\ pc = "end"
    /\ exitCode' = 0
    /\ pc' = "done"
    /\ UNCHANGED <<script, handlers, stdin, payload, handler, pending, response, calls,
                   stdout, stderr, log>>
    /\ UNCHANGED <<guardVars, configVars, codecVars>>

Next ==
    \/ Decode
    \/ Lookup
    \/ InvokeHandler
    \/ Settle
    \/ Respond
    \/ NoHandler
    \/ GuardCheck
    \/ BuildResponse
    \/ WriteResponse
    \/ Exit

Spec == Init /\ [][Next]_vars

(***************************************************************************)
(* Properties of the guard, checked under GuardSpec.                       *)
(***************************************************************************)
\* The value is an object that owns a hook_event_name field.
HasDiscriminant(v) == v.kind = "object" /\ "hook_event_name" \in DOMAIN v.fields

\* The value is an object whose hook_event_name is the name of a hook event.
IsEventPayload(v) ==
    HasDiscriminant(v) /\ v.fields["hook_event_name"] \in {Str(e) : e \in HookEventName}

GuardCalled == gCalls > 0

\* C1: for an object payload whose hook_event_name is one of the six event names,
\* isHookPayloadOf returns true when asked for that event and false when asked
\* for any of the other five.
C1_GuardAgreesWithDiscriminant ==
    (GuardCalled /\ IsEventPayload(gValue)) =>
        gResult = Ret(Bool(gValue.fields["hook_event_name"].s = gEvent))

\* Scenario D: a beforeReadFile payload checked against beforeSubmitPrompt.
C1_Witness ==
    /\ GuardCalled
    /\ HasDiscriminant(gValue)
    /\ gValue.fields["hook_event_name"] = Str("beforeReadFile")
    /\ gEvent = "beforeSubmitPrompt"
    /\ gResult = Ret(Bool(FALSE))

\* C2: isHookPayloadOf never throws, and it returns false for null, for every
\* primitive, for every array and for every object without a hook_event_name.
C2_GuardNeverThrows ==
    GuardCalled =>
        /\ ~gResult.threw
        /\ gResult.value.kind = "boolean"
        /\ ~HasDiscriminant(gValue) => gResult = Ret(Bool(FALSE))

C2_Witness ==
    /\ GuardCalled
    /\ gValue = Null
    /\ gResult = Ret(Bool(FALSE))

\* C3: isHookPayloadOf returns true for every object whose hook_event_name is the
\* event asked for, whichever other fields the object has, lacks or mistypes.
C3_GuardIgnoresOtherFields ==
    (GuardCalled /\ HasDiscriminant(gValue)
        /\ gValue.fields["hook_event_name"] = Str(gEvent)) =>
        gResult = Ret(Bool(TRUE))

\* A beforeShellExecution payload with a number for a command and no base field.
C3_Witness ==
    /\ GuardCalled
    /\ gEvent = "beforeShellExecution"
    /\ gValue = Obj(Field("hook_event_name", Str("beforeShellExecution"))
                    @@ Field("command", Num(7)))
    /\ gResult = Ret(Bool(TRUE))

(***************************************************************************)
(* Properties of the scripts, checked under Spec.                          *)
(***************************************************************************)
\* The input is the JSON of an object whose hook_event_name is the string e.
InputNames(e) ==
    /\ ~stdin.malformed
    /\ HasDiscriminant(stdin.value)
    /\ stdin.value.fields["hook_event_name"] = Str(e)

Combined == script \in DispatchScripts

Count(q, x) == Cardinality({i \in 1..Len(q) : q[i] = x})

\* The call of the handler registered under e with the input value.
CallOf(e) == [fn |-> [kind |-> "handler", name |-> e], arg |-> stdin.value]

\* C4: with a table that registers a strict subset of the six events, a payload
\* whose hook_event_name is an event outside the table ends in the no-handler
\* condition (diagnostic on the error channel, exit status 1): no handler is
\* invoked, nothing is written to the response channel, the exit status is never 0.
C4_UnregisteredEventIsNoHandler ==
    \A e \in HookEventName \ handlers :
        (Combined /\ InputNames(e)) =>
            /\ calls = <<>>
            /\ stdout = <<>>
            /\ exitCode # 0
            /\ pc \in {"start", "decoded", "looked", "done"}
            /\ pc = "done" => (exitCode = 1 /\ stderr = <<"No handler for " \o e>>)

C4_Witness ==
    /\ Combined
    /\ handlers = HookEventName \ {"stop"}
    /\ InputNames("stop")
    /\ pc = "done"
    /\ exitCode = 1
    /\ stderr = <<"No handler for stop">>

\* C5: every handler of the table is invoked only with a value that
\* isHookPayloadOf narrows to the event the handler is registered for.
C5_HandlerInvokedOnlyOnNarrowedPayload ==
    \A i \in 1..Len(calls) :
        calls[i].fn.kind = "handler" => Narrows(calls[i].arg, calls[i].fn.name)

\* C6: a payload that names a registered event is routed to the handler
\* registered under that name and to no other function, once; and when the
\* handler returned a defined value, the one document written to the response
\* channel is that value.
C6_RoutedToExactlyOneHandler ==
    /\ Len(calls) <= 1
    /\ \A e \in handlers :
        (Combined /\ InputNames(e)) =>
            /\ calls \in {<<>>, <<CallOf(e)>>}
            /\ pc \in {"awaiting", "settled", "end", "done"} => calls = <<CallOf(e)>>
            /\ (pc \in {"end", "done"} /\ pending = Ret(pending.value)
                    /\ pending.value # Undefined) =>
                    stdout = <<pending.value>>

\* Scenario A, routed through the table.
C6_Witness ==
    /\ Combined
    /\ handlers = HookEventName
    /\ stdin.value = Obj(Field("hook_event_name", Str("beforeShellExecution"))
                         @@ Field("command", Str("rm -rf /")))
    /\ pc = "done"
    /\ calls = <<CallOf("beforeShellExecution")>>
    /\ Len(stdout) = 1
    /\ stdout[1].fields["permission"] = Str("deny")

\* C7: in a run of the dispatch script the steps are decode, then the handler
\* invocation, then the response: one decode, at most one invocation and only
\* after the decode, at most one response and only after the invocation.
C7_DecodeDispatchRespondInOrder ==
    Combined =>
        /\ log \in {<<>>, <<"decode">>, <<"decode", "invoke">>,
                    <<"decode", "invoke", "write">>}
        /\ (pc = "start") = (log = <<>>)
        /\ Len(calls) = Count(log, "invoke")
        /\ Len(stdout) = Count(log, "write")
        /\ payload # Undefined => Count(log, "decode") = 1

C7_Witness ==
    /\ Combined
    /\ pc = "done"
    /\ exitCode = 0
    /\ log = <<"decode", "invoke", "write">>

\* The handler registered for a notification event was invoked with the input
\* and returned no value.
NotificationReturnedNothing(e) ==
    /\ Combined
    /\ InputNames(e)
    /\ calls = <<CallOf(e)>>
    /\ pending = Ret(Undefined)
    /\ pc \in {"awaiting", "settled", "end", "done"}

\* C8: when the handler of afterFileEdit or stop returns no value, nothing is
\* written to the response channel and the run is not a failure: no no-handler
\* or uncaught-error report, and the exit status is 0.
C8_NotificationNeedsNoResponse ==
    \A e \in {"afterFileEdit", "stop"} :
        NotificationReturnedNothing(e) =>
            /\ stdout = <<>>
            /\ exitCode # 1
            /\ \A i \in 1..Len(stderr) :
                    stderr[i] = "Edited"
                    \/ stderr[i] = "Agent finished with status: "
                            \o ToStringJS(GetProp(stdin.value, "status").value)
            /\ pc = "done" => exitCode = 0

\* Scenario B.
C8_Witness ==
    /\ NotificationReturnedNothing("stop")
    /\ GetProp(stdin.value, "status").value = Str("completed")
    /\ pc = "done"
    /\ exitCode = 0
    /\ stdout = <<>>

\* The function invoked as the handler raised instead of returning.
HandlerRaised ==
    Len(calls) >= 1 /\ CallFunction(calls[1].fn, calls[1].arg).completion.threw

\* C9: when the invoked handler raises or rejects, nothing is written to the
\* response channel, the process ends with the uncaught error reported and a
\* non-zero status, and the handler is not invoked again.
C9_HandlerFailurePropagates ==
    HandlerRaised =>
        /\ Len(calls) = 1
        /\ stdout = <<>>
        /\ response = Undefined
        /\ exitCode # 0
        /\ pc \in {"awaiting", "done"}
        /\ pc = "done" =>
                /\ exitCode = 1
                /\ stderr[Len(stderr)] = "Uncaught "
                        \o CallFunction(calls[1].fn, calls[1].arg).completion.error

\* An async handler rejected: a beforeShellExecution payload without a command.
C9_Witness ==
    /\ Combined
    /\ stdin.value = Obj(Field("hook_event_name", Str("beforeShellExecution")))
    /\ calls = <<CallOf("beforeShellExecution")>>
    /\ HandlerRaised
    /\ pc = "done"
    /\ exitCode = 1
    /\ stderr = <<"Uncaught TypeError">>

\* A line of the error channel that reports a failure.
IsDiagnostic(line) ==
    \/ line = "Unexpected hook payload"
    \/ (Len(line) >= 9 /\ SubSeq(line, 1, 9) = "Uncaught ")
    \/ (Len(line) >= 15 /\ SubSeq(line, 1, 15) = "No handler for ")

\* The three failures of a run that produce no decision.  No handler is
\* registered when the table has no entry under the payload's hook_event_name.
GuardMismatch ==
    script = "single" /\ ~stdin.malformed /\ ~Narrows(stdin.value, "beforeShellExecution")
NoHandlerRegistered ==
    /\ Combined
    /\ ~stdin.malformed
    /\ \/ GetProp(stdin.value, "hook_event_name").threw
       \/ ToStringJS(GetProp(stdin.value, "hook_event_name").value) \notin handlers
FailedRun == GuardMismatch \/ NoHandlerRegistered \/ HandlerRaised

\* C10: a finished run that failed (guard mismatch in the single-hook script, no
\* handler registered, handler failure) has a non-zero exit status, a diagnostic on
\* the error channel and nothing on the response channel; and a finished run that
\* wrote a response has exit status 0 and no diagnostic.
C10_FailureIsNonZeroAndSilentOnStdout ==
    pc = "done" =>
        /\ FailedRun =>
                /\ exitCode = 1
                /\ stdout = <<>>
                /\ Len(stderr) >= 1
                /\ IsDiagnostic(stderr[Len(stderr)])
        /\ stdout # <<>> =>
                /\ exitCode = 0
                /\ \A i \in 1..Len(stderr) : ~IsDiagnostic(stderr[i])

(***************************************************************************)
(* Response shapes (src/src/types.ts:36-45, 116-118, 131-133, 162-169).    *)
(***************************************************************************)
HookPermission == {"allow", "deny", "ask"}

RequestEvents ==
    {"beforeShellExecution", "beforeMCPExecution", "beforeReadFile", "beforeSubmitPrompt"}

OptionalString(v, k) ==
    k \in DOMAIN v.fields => v.fields[k].kind = "string"

\* HookPermissionResponse
IsHookPermissionResponse(v) ==
    /\ v.kind = "object"
    /\ "permission" \in DOMAIN v.fields
    /\ v.fields["permission"] \in {Str(x) : x \in HookPermission}
    /\ OptionalString(v, "userMessage")
    /\ OptionalString(v, "agentMessage")

\* BeforeReadFileResponse
IsBeforeReadFileResponse(v) ==
    /\ v.kind = "object"
    /\ "permission" \in DOMAIN v.fields
    /\ v.fields["permission"] \in {Str("allow"), Str("deny")}

\* BeforeSubmitPromptResponse: a boolean `continue`, and no permission decision.
IsBeforeSubmitPromptResponse(v) ==
    /\ v.kind = "object"
    /\ "continue" \in DOMAIN v.fields
    /\ v.fields["continue"].kind = "boolean"
    /\ "permission" \notin DOMAIN v.fields

\* HookResponseMap, for the request-style events.
InResponseShape(e, v) ==
    CASE e \in {"beforeShellExecution", "beforeMCPExecution"} -> IsHookPermissionResponse(v)
      [] e = "beforeReadFile" -> IsBeforeReadFileResponse(v)
      [] e = "beforeSubmitPrompt" -> IsBeforeSubmitPromptResponse(v)
      [] OTHER -> FALSE

\* The request-style event whose handler template was invoked in this run.
HandledRequestEvent(e) ==
    /\ e \in RequestEvents
    /\ \/ script = "single" /\ e = "beforeShellExecution"
       \/ Combined /\ Len(calls) >= 1 /\ calls[1].fn = [kind |-> "handler", name |-> e]

\* C11: every document written to the response channel by the handler template of
\* a request-style event lies in that event's response shape: permission is
\* allow, deny or ask for beforeShellExecution and beforeMCPExecution, allow or
\* deny for beforeReadFile, and for beforeSubmitPrompt a boolean `continue` and no
\* permission.
C11_ResponsesLieInTheirShape ==
    \A e \in RequestEvents :
        HandledRequestEvent(e) =>
            \A i \in 1..Len(stdout) : InResponseShape(e, stdout[i])

\* The earlier edition's refusal of a long prompt, which also carries a message.
C11_Witness ==
    /\ script = "combined_earlier"
    /\ HandledRequestEvent("beforeSubmitPrompt")
    /\ pc = "done"
    /\ Len(stdout) = 1
    /\ stdout[1].fields["continue"] = Bool(FALSE)
    /\ "userMessage" \in DOMAIN stdout[1].fields

\* The input is a beforeShellExecution payload with a string for a command, and
\* the script routes it to the documented shell handler.
ShellPayloadRouted ==
    /\ InputNames("beforeShellExecution")
    /\ "command" \in DOMAIN stdin.value.fields
    /\ stdin.value.fields["command"].kind = "string"
    /\ Combined => "beforeShellExecution" \in handlers

CommandText == stdin.value.fields["command"].s

\* C13: a beforeShellExecution payload routed through the documented handler
\* yields permission deny when its command contains "rm -rf" and permission allow
\* when it does not; the handler never returns ask.
C13_DenyExactlyWhenCommandContainsRmRf ==
    ShellPayloadRouted =>
        /\ \A i \in 1..Len(stdout) :
                /\ stdout[i].fields["permission"] # Str("ask")
                /\ stdout[i].fields["permission"] =
                        IF StringIncludes(CommandText, "rm -rf") THEN Str("deny") ELSE Str("allow")
        /\ (Combined /\ pc \in {"awaiting", "settled"}) => pending.value.fields["permission"] # Str("ask")
        /\ pc = "done" => (Len(stdout) = 1 /\ exitCode = 0)

\* "rm -rf" inside the command, not at its start: denied by the handler.
C13_Witness ==
    /\ Combined
    /\ ShellPayloadRouted
    /\ CommandText = "sudo rm -rf x"
    /\ pc = "done"
    /\ stdout[1].fields["permission"] = Str("deny")

\* The dispatch script has invoked a handler declared `async`: what it got back
\* is a promise, and the handler's result becomes available when that settles.
AsyncHandlerInvoked ==
    /\ Combined
    /\ Len(calls) = 1
    /\ calls[1].fn.kind = "handler"
    /\ calls[1].fn.name \in AsyncHandlers

\* C16: when the invoked handler completes asynchronously, the dispatcher writes
\* the response only after the handler has completed, the response written is
\* the handler's eventual result, and the process neither finishes the respond
\* step nor reports success while the handler is pending or after it failed.
C16_ResponseAwaitsAsyncHandler ==
    AsyncHandlerInvoked =>
        /\ pc = "awaiting" => (stdout = <<>> /\ response = Undefined /\ exitCode = -1)
        /\ stdout # <<>> =>
                /\ ~pending.threw
                /\ response = pending.value
                /\ stdout = <<JSONstringify(pending.value)>>
        /\ pc \in {"settled", "end"} => (~pending.threw /\ response = pending.value)
        /\ exitCode = 0 => (~pending.threw /\ response = pending.value)

\* The async shell handler was awaited and its deny decision was written.
C16_Witness ==
    /\ AsyncHandlerInvoked
    /\ calls[1].fn.name = "beforeShellExecution"
    /\ pc = "done"
    /\ exitCode = 0
    /\ pending.value.fields["permission"] = Str("deny")
    /\ stdout = <<pending.value>>

\* The decoded input has no discriminant (null, a primitive, an array, an object
\* without hook_event_name), or its discriminant is a string that is no key
\* registered in the handler table.
UnregisteredDiscriminant ==
    /\ ~stdin.malformed
    /\ \/ ~HasDiscriminant(stdin.value)
       \/ /\ stdin.value.fields["hook_event_name"].kind = "string"
          /\ stdin.value.fields["hook_event_name"].s \notin handlers

\* C17: in the dispatch flow, for every decoded value whose discriminant is
\* absent or is a string outside the registered keys, no function is invoked as
\* a handler, nothing is written to the response channel, and the process ends
\* with a non-zero status.
C17_UnregisteredDiscriminantInvokesNothing ==
    (Combined /\ UnregisteredDiscriminant) =>
        /\ calls = <<>>
        /\ stdout = <<>>
        /\ exitCode # 0
        /\ pc = "done" => exitCode = 1

(***************************************************************************)
(* The registration file hooks.json (src/src/types.ts:201-218) and its     *)
(* validation.  The package ships the validation as a JSON schema that is  *)
(* not among the sources; ValidateConfig follows the specification.        *)
(***************************************************************************)
MaxEntries == 2       \* longest list of hook definitions under one key

\* Hook definitions: a command string, no command, a command that is no string.
ConfigEntries ==
    {Obj(Field("command", Str("./x.sh"))), Obj(NoFields), Obj(Field("command", Num(7)))}

ConfigKeys == {"beforeReadFile", "notAnEvent"}

ConfigLists == {Arr(q) : q \in SeqsUpTo(ConfigEntries, MaxEntries)}

ConfigHooks ==
    {Obj(m) : m \in UNION {[K -> ConfigLists] : K \in SUBSET ConfigKeys}}
    \cup {Arr(<<>>)}

ConfigVersions == {Num(1), Num(2), Num(0), Str("1")}

ConfigFiles ==
    {Obj(v @@ h @@ x) :
        v \in {NoFields} \cup {Field("version", n) : n \in ConfigVersions},
        h \in {NoFields} \cup {Field("hooks", m) : m \in ConfigHooks},
        x \in {NoFields, Field("$schema", Str("hooks.schema.json"))}}

\* HookCommandConfig: an object with a command string.
IsHookCommandConfig(v) ==
    v.kind = "object" /\ "command" \in DOMAIN v.fields /\ v.fields["command"].kind = "string"

\* Faulty variant: keys outside the event set are skipped instead of rejected.
ValidateConfig_SkipsUnknownKeys(c) ==
    /\ c.kind = "object"
    /\ "version" \in DOMAIN c.fields
    /\ c.fields["version"] = Num(1)
    /\ "hooks" \in DOMAIN c.fields
    /\ c.fields["hooks"].kind = "object"
    /\ \A k \in DOMAIN c.fields["hooks"].fields \cap HookEventName :
            /\ c.fields["hooks"].fields[k].kind = "array"
            /\ \A i \in 1..Len(c.fields["hooks"].fields[k].items) :
                    IsHookCommandConfig(c.fields["hooks"].fields[k].items[i])

\* CursorHooksConfig: version is the literal 1, hooks maps event names to lists
\* of hook definitions; other top-level fields are not looked at.
ValidateConfig(c) ==
    /\ c.kind = "object"
    /\ "version" \in DOMAIN c.fields
    /\ c.fields["version"] = Num(1)
    /\ "hooks" \in DOMAIN c.fields
    /\ c.fields["hooks"].kind = "object"
    /\ \A k \in DOMAIN c.fields["hooks"].fields :
            /\ k \in HookEventName
            /\ c.fields["hooks"].fields[k].kind = "array"
            /\ \A i \in 1..Len(c.fields["hooks"].fields[k].items) :
                    IsHookCommandConfig(c.fields["hooks"].fields[k].items[i])

ConfigInit ==
    /\ cfgFile \in ConfigFiles
    /\ cfgVerdict = "none"
    /\ RunIdle
    /\ GuardIdle
    /\ CodecIdle

\* The file is checked when the configuration is loaded; the outcome is reported.
LoadConfig ==
    /\ cfgVerdict = "none"
    /\ cfgVerdict' = IF ValidateConfig(cfgFile) THEN "accepted" ELSE "rejected"
    /\ UNCHANGED cfgFile
    /\ UNCHANGED <<runVars, guardVars, codecVars>>

ConfigNext == LoadConfig

ConfigSpec == ConfigInit /\ [][ConfigNext]_vars

\* The file has a hooks mapping.
HasHooksMapping(c) ==
    "hooks" \in DOMAIN c.fields /\ c.fields["hooks"].kind = "object"

HooksOf(c) == c.fields["hooks"].fields

\* C12: a registration file with a hooks mapping is accepted exactly when its
\* version is the integer 1, every key of the mapping is one of the six event
\* names and every entry of every list has a command string, whatever other
\* top-level fields it has; a file without a hooks mapping is rejected.
C12_ConfigAcceptedExactlyWhenWellFormed ==
    cfgVerdict # "none" =>
        /\ cfgVerdict \in {"accepted", "rejected"}
        /\ ~HasHooksMapping(cfgFile) => cfgVerdict = "rejected"
        /\ HasHooksMapping(cfgFile) =>
            ((cfgVerdict = "accepted") <=>
                /\ "version" \in DOMAIN cfgFile.fields
                /\ cfgFile.fields["version"] = Num(1)
                /\ DOMAIN HooksOf(cfgFile) \subseteq HookEventName
                /\ \A k \in DOMAIN HooksOf(cfgFile) :
                     \A i \in 1..Len(HooksOf(cfgFile)[k].items) :
                        /\ "command" \in DOMAIN HooksOf(cfgFile)[k].items[i].fields
                        /\ HooksOf(cfgFile)[k].items[i].fields["command"].kind = "string")

\* Scenario E: version 1, a valid beforeReadFile list and the key notAnEvent.
ScenarioEFile ==
    Obj(Field("version", Num(1))
        @@ Field("hooks", Obj(Field("beforeReadFile", Arr(<<Obj(Field("command", Str("./x.sh")))>>))
                              @@ Field("notAnEvent", Arr(<<>>)))))

\* The file of Scenario E has been checked and rejected.
C12_Witness ==
    /\ cfgFile = ScenarioEFile
    /\ cfgVerdict = "rejected"

(***************************************************************************)
(* The response on the wire: JSON.stringify(response) written by the hook  *)
(* (src/README.md:36, :279) and decoded again with JSON.parse (:22, :273). *)
(* The text is a sequence of tokens; white space between tokens (the       *)
(* indentation of JSON.stringify(output, null, 2)) carries no token.       *)
(* Responses are flat objects, and so is the text handled here; message    *)
(* texts hold no character that JSON escapes.                              *)
(***************************************************************************)
\* The order in which the response types and templates write their properties.
KeyOrder == <<"permission", "continue", "userMessage", "agentMessage">>

Quote(s) == "\"" \o s \o "\""

\* The text of a value that is no object and no array.
ScalarText(v) ==
    CASE v.kind = "boolean" -> IF v.b THEN "true" ELSE "false"
      [] v.kind = "null" -> "null"
      [] v.kind = "number" -> NumText(v.n)
      [] v.kind = "string" -> Quote(v.s)

RECURSIVE Members(_, _)
\* "key":value, ... for the keys of the sequence keys, in that order.
Members(f, keys) ==
    IF keys = <<>> THEN <<>>
    ELSE <<Quote(Head(keys)), ":", ScalarText(f[Head(keys)])>>
            \o (IF Len(keys) > 1 THEN <<",">> ELSE <<>>)
            \o Members(f, Tail(keys))

\* The keys of KeyOrder that f has, in order.
OwnKeysInOrder(f) == SelectSeq(KeyOrder, LAMBDA k : k \in DOMAIN f)

\* The text JSON.stringify produces for a flat object.
JSONtext(v) ==
    LET j == JSONstringify(v)
    IN <<"{">> \o Members(j.fields, OwnKeysInOrder(j.fields)) \o <<"}">>

IsStringToken(t) == Len(t) >= 2 /\ SubSeq(t, 1, 1) = "\"" /\ SubSeq(t, Len(t), Len(t)) = "\""

Unquote(t) == SubSeq(t, 2, Len(t) - 1)

IsScalarToken(t) == IsStringToken(t) \/ t \in {"true", "false", "null", "0", "1", "7"}

ParseScalar(t) ==
    CASE t = "true" -> Bool(TRUE)
      [] t = "false" -> Bool(FALSE)
      [] t = "null" -> Null
      [] t = "0" -> Num(0)
      [] t = "1" -> Num(1)
      [] t = "7" -> Num(7)
      [] OTHER -> Str(Unquote(t))

RECURSIVE ParseMembers(_)
\* The members between the braces: a completion holding the fields read.
ParseMembers(t) ==
    IF Len(t) < 3 \/ ~IsStringToken(t[1]) \/ t[2] # ":" \/ ~IsScalarToken(t[3])
    THEN Throw("SyntaxError")
    ELSE IF Len(t) = 3 THEN Ret(Field(Unquote(t[1]), ParseScalar(t[3])))
    ELSE IF t[4] # "," THEN Throw("SyntaxError")
    ELSE LET rest == ParseMembers(SubSeq(t, 5, Len(t)))
         IN IF rest.threw THEN rest
            ELSE Ret(rest.value @@ Field(Unquote(t[1]), ParseScalar(t[3])))

\* JSON.parse of the text of a flat object.
JSONparse(t) ==
    IF Len(t) < 2 \/ t[1] # "{" \/ t[Len(t)] # "}" THEN Throw("SyntaxError")
    ELSE IF Len(t) = 2 THEN Ret(Obj(NoFields))
    ELSE LET m == ParseMembers(SubSeq(t, 2, Len(t) - 1))
         IN IF m.threw THEN m ELSE Ret(Obj(m.value))

\* An optional message: absent, undefined, empty, or a text.
OptionalMessage(k) ==
    {NoFields, Field(k, Undefined), Field(k, Str("")), Field(k, Str("Dangerous command blocked."))}

\* Values of the response types of the request-style events.
Responses ==
    {Obj(Field("permission", Str(x)) @@ u @@ a) :
        x \in HookPermission, u \in OptionalMessage("userMessage"),
        a \in OptionalMessage("agentMessage")}
    \cup {Obj(Field("continue", Bool(b)) @@ u) :
        b \in BOOLEAN, u \in OptionalMessage("userMessage")}

CodecInit ==
    /\ rValue \in Responses
    /\ rText = <<>>
    /\ rDecoded = Undefined
    /\ RunIdle
    /\ GuardIdle
    /\ ConfigIdle

\* console.log(JSON.stringify(response))
Encode ==
    /\ rText = <<>>
    /\ rText' = JSONtext(rValue)
    /\ UNCHANGED <<rValue, rDecoded>>
    /\ UNCHANGED <<runVars, guardVars, configVars>>

\* JSON.parse on the reading side; a text that does not parse decodes to null here.
DecodeResponse ==
    /\ rText # <<>>
    /\ rDecoded = Undefined
    /\ rDecoded' = IF JSONparse(rText).threw THEN Null ELSE JSONparse(rText).value
    /\ UNCHANGED <<rValue, rText>>
    /\ UNCHANGED <<runVars, guardVars, configVars>>

CodecNext == Encode \/ DecodeResponse

CodecSpec == CodecInit /\ [][CodecNext]_vars

\* The decision a response carries: its permission, or its continue flag.
DecisionKeys == {"permission", "continue"}

\* C14: encoding a response of a request-style event to JSON and decoding it
\* again preserves the decision: the decoded value has the same permission, or
\* the same continue boolean, as the original, also when the optional message
\* fields are absent or undefined.
C14_RoundTripPreservesDecision ==
    rDecoded # Undefined =>
        /\ rDecoded.kind = "object"
        /\ \A k \in DecisionKeys :
            /\ (k \in DOMAIN rValue.fields) <=> (k \in DOMAIN rDecoded.fields)
            /\ k \in DOMAIN rValue.fields => rDecoded.fields[k] = rValue.fields[k]

\* {continue: false, userMessage: undefined} has been encoded and decoded.
C14_Witness ==
    /\ rValue = Obj(Field("continue", Bool(FALSE)) @@ Field("userMessage", Undefined))
    /\ rText = <<"{", "\"continue\"", ":", "false", "}">>
    /\ rDecoded = Obj(Field("continue", Bool(FALSE)))

====
